---- MODULE Spec2Model ----
(***************************************************************************)
(* Model of src/keys.rs: the Keys trait, the keys! macro that generates an  *)
(* enum with from_str / as_str / NAMES and a serde Deserialize impl, and    *)
(* the Visitor that bridges a string token to Keys::from_str.               *)
(*                                                                          *)
(* One invocation of keys! is the sequence `pairs` of the canonical string  *)
(* expressions $v in declared order.  The generated enum has one variant    *)
(* per pair; a variant is identified by its declaration position 1..n (its  *)
(* discriminant), so variant names are distinct by construction, as the     *)
(* compiler requires.  Canonical strings may repeat: the macro does not     *)
(* validate them.                                                           *)
(***************************************************************************)
EXTENDS Integers, Sequences, FiniteSets, TLC

VARIABLES pairs, op, arg, ret

vars == <<pairs, op, arg, ret>>

(* Bounds of the model. *)
MaxPairs == 3
MaxEntries == 3
MaxVal == 1

(* String expressions a keys! invocation may use, and string tokens a      *)
(* caller or a deserializer may present ("purple" is never declared).      *)
Strings == {"red", "green", "blue"}

Inputs == Strings \cup {"purple"}

(* Option<T> and Result<T, E>. *)
None == [some |-> FALSE]

Some(v) == [some |-> TRUE, val |-> v]

Ok(v) == [ok |-> TRUE, value |-> v]

Err(e) == [ok |-> FALSE, error |-> e]

(* enum $name { $( $k, )* } : the variants, by declaration position. *)
Variants(ps) == 1..Len(ps)

(* const NAMES = &[ $( $v, )* ] *)
NAMES_short(ps) == SubSeq(ps, 1, Len(ps) - 1)

NAMES(ps) == [i \in 1..Len(ps) |-> ps[i]]

(* fn from_str: match s { $( $v => Some($name::$k), )* _ => None }.         *)
(* Arms are tried in declared order; the first arm whose literal equals s  *)
(* is taken.                                                                *)
RECURSIVE match_str(_, _, _)
match_str(ps, s, i) ==
    IF i > Len(ps) THEN None
    ELSE IF ps[i] = s THEN Some(i)
    ELSE match_str(ps, s, i + 1)

from_str_last(ps, s) ==
    LET hits == {i \in 1..Len(ps) : ps[i] = s}
    IN IF hits = {} THEN None
       ELSE Some(CHOOSE i \in hits : \A j \in hits : j <= i)

from_str_default(ps, s) ==
    LET r == match_str(ps, s, 1)
    IN IF r.some THEN r ELSE Some(1)

from_str(ps, s) == match_str(ps, s, 1)

(* fn as_str: match self { $( $name::$k => $v, )* } *)
as_str_next(ps, v) == ps[(v % Len(ps)) + 1]

as_str(ps, v) == ps[CHOOSE i \in 1..Len(ps) : i = v]

(* E::unknown_field(s, K::NAMES) *)
unknown_field(s, names) ==
    [kind |-> "unknown_field", field |-> s, expected |-> names]

(* Visitor::visit_str: K::from_str(s).ok_or_else(|| E::unknown_field(..)) *)
visit_str_first_variant(ps, s) ==
    LET r == from_str(ps, s)
    IN IF r.some THEN Ok(1) ELSE Err(unknown_field(s, NAMES(ps)))

visit_str_no_names(ps, s) ==
    LET r == from_str(ps, s)
    IN IF r.some THEN Ok(r.val) ELSE Err(unknown_field(s, <<>>))

visit_str(ps, s) ==
    LET r == from_str(ps, s)
    IN IF r.some THEN Ok(r.val) ELSE Err(unknown_field(s, NAMES(ps)))

(* Deserialize::deserialize: d.deserialize_str(visitor_for::<$name>()),     *)
(* for a deserializer whose next token is the string s.                     *)
deserialize(ps, s) == visit_str(ps, s)

(* Visitor::expecting: the loop over K::NAMES with the local `first`.       *)
(* `first` is only assigned inside the `if !first` branch.                  *)
RECURSIVE expecting_loop(_, _, _, _)
expecting_loop(names, i, first, f) ==
    IF i > Len(names) THEN f
    ELSE LET f1 == IF ~first THEN f \o ", " ELSE f
             first1 == IF ~first THEN FALSE ELSE first
             f2 == f1 \o "\"" \o names[i] \o "\""
         IN expecting_loop(names, i + 1, first1, f2)

expecting(ps) == expecting_loop(NAMES(ps), 1, TRUE, "one of ")

(* HashMap::insert *)
insert_replace(m, k, x) == [y \in {k} |-> x]

insert(m, k, x) ==
    [y \in (DOMAIN m) \cup {k} |-> IF y = k THEN x ELSE m[y]]

(* Decoding a JSON object into HashMap<$name, u8>: every key goes through  *)
(* Deserialize::deserialize of the generated type, the first key error     *)
(* aborts the decoding, otherwise the entry is inserted.                    *)
RECURSIVE visit_map(_, _, _, _)
visit_map(ps, entries, i, m) ==
    IF i > Len(entries) THEN Ok(m)
    ELSE LET r == deserialize(ps, entries[i].key)
         IN IF r.ok
            THEN visit_map(ps, entries, i + 1, insert(m, r.value, entries[i].val))
            ELSE r

deserialize_hashmap(ps, entries) == visit_map(ps, entries, 1, <<>>)

(* Revision 1 of the Keys contract: a static (string, variant) pair table  *)
(* and default linear scans over it.                                        *)
Rev1Table(ps) == [i \in 1..Len(ps) |-> <<ps[i], i>>]

RECURSIVE Rev1Scan(_, _, _, _)
Rev1Scan(tbl, col, x, i) ==
    IF i > Len(tbl) THEN 0
    ELSE IF tbl[i][col] = x THEN i
    ELSE Rev1Scan(tbl, col, x, i + 1)

Rev1FromStr(ps, s) ==
    LET i == Rev1Scan(Rev1Table(ps), 1, s, 1)
    IN IF i = 0 THEN None ELSE Some(Rev1Table(ps)[i][2])

Rev1AsStr(ps, v) ==
    LET i == Rev1Scan(Rev1Table(ps), 2, v, 1)
    IN IF i = 0 THEN "panic" ELSE Rev1Table(ps)[i][1]

(***************************************************************************)
(* Inputs                                                                   *)
(***************************************************************************)
PairLists == UNION {[1..n -> Strings] : n \in 1..MaxPairs}

Entry == [key : Inputs, val : 0..MaxVal]

(* A JSON object: entries in some order, keys pairwise distinct. *)
EntryLists ==
    {es \in UNION {[1..n -> Entry] : n \in 0..MaxEntries} :
        \A i, j \in 1..Len(es) : es[i].key = es[j].key => i = j}

(***************************************************************************)
(* State machine: a keys! invocation is fixed at Init; every action is one *)
(* call on the generated type, recording its argument and result.  The     *)
(* generated type is immutable and every operation is pure, so the result  *)
(* of a call depends on `pairs` and the argument only: a behaviour is one  *)
(* call on a freshly generated type, and later calls add no new states.    *)
(***************************************************************************)
Init ==
    /\ pairs \in PairLists
    /\ op = "init"
    /\ arg = <<>>
    /\ ret = <<>>

FromStr ==
    \E s \in Inputs :
        /\ op = "init"
        /\ op' = "from_str"
        /\ arg' = s
        /\ ret' = from_str(pairs, s)
        /\ UNCHANGED pairs

AsStr ==
    \E v \in Variants(pairs) :
        /\ op = "init"
        /\ op' = "as_str"
        /\ arg' = v
        /\ ret' = as_str(pairs, v)
        /\ UNCHANGED pairs

RoundTrip ==
    \E v \in Variants(pairs) :
        /\ op = "init"
        /\ op' = "round_trip"
        /\ arg' = v
        /\ ret' = from_str(pairs, as_str(pairs, v))
        /\ UNCHANGED pairs

VisitStr ==
    \E s \in Inputs :
        /\ op = "init"
        /\ op' = "visit_str"
        /\ arg' = s
        /\ ret' = visit_str(pairs, s)
        /\ UNCHANGED pairs

Expecting ==
    /\ op = "init"
    /\ op' = "expecting"
    /\ arg' = <<>>
    /\ ret' = expecting(pairs)
    /\ UNCHANGED pairs

DeserializeHashMap ==
    \E es \in EntryLists :
        /\ op = "init"
        /\ op' = "deserialize_hashmap"
        /\ arg' = es
        /\ ret' = deserialize_hashmap(pairs, es)
        /\ UNCHANGED pairs

Next ==
    \/ FromStr
    \/ AsStr
    \/ RoundTrip
    \/ VisitStr
    \/ Expecting
    \/ DeserializeHashMap

Spec == Init /\ [][Next]_vars

(***************************************************************************)
(* Properties                                                               *)
(***************************************************************************)
Range(f) == {f[i] : i \in DOMAIN f}

(* The canonical strings of the invocation are pairwise distinct. *)
Distinct(ps) == \A i, j \in 1..Len(ps) : ps[i] = ps[j] => i = j

(* The first listed variant carrying the string s. *)
FirstCarrier(ps, s) ==
    CHOOSE i \in 1..Len(ps) : ps[i] = s /\ \A j \in 1..(i - 1) : ps[j] # s

(* C1: round-trip.  For a pair list with pairwise distinct canonical       *)
(* strings and every variant v, from_str(as_str(v)) is Some(v).             *)
C1_RoundTrip ==
    (op = "round_trip" /\ Distinct(pairs)) => ret = Some(arg)

C1_Witness ==
    /\ op = "round_trip"
    /\ Distinct(pairs)
    /\ Len(pairs) >= 2
    /\ arg = 2
    /\ ret = Some(2)

(* C2: rejection.  from_str on a string that is not a declared canonical   *)
(* string returns None, a value and not a failure.                          *)
C2_Rejection ==
    (op = "from_str" /\ arg \notin Range(pairs)) => ret = None

C2_Witness ==
    /\ op = "from_str"
    /\ pairs = <<"red", "green", "blue">>
    /\ arg = "purple"
    /\ ret = None

(* C3: exhaustive naming.  as_str of the i-th declared variant is exactly  *)
(* the i-th declared string, also when other variants share that string.   *)
C3_ExhaustiveNaming ==
    op = "as_str" => (arg \in Variants(pairs) /\ ret = pairs[arg])

C3_Witness ==
    /\ op = "as_str"
    /\ arg = 2
    /\ Len(pairs) >= 3
    /\ pairs[1] = pairs[2]
    /\ pairs[3] # pairs[2]
    /\ ret = pairs[2]

(* C4: decoding success.  visit_str on a canonical string s returns Ok(v)  *)
(* where v is the variant from_str(s) yields, and as_str(v) is s.           *)
C4_DecodingSuccess ==
    (op = "visit_str" /\ arg \in Range(pairs)) =>
        /\ ret.ok
        /\ Some(ret.value) = from_str(pairs, arg)
        /\ pairs[ret.value] = arg

C4_Witness ==
    /\ op = "visit_str"
    /\ pairs = <<"red", "green", "blue">>
    /\ arg = "blue"
    /\ ret = Ok(3)

(* C5: decoding failure diagnostic.  visit_str on a string s that is not   *)
(* canonical returns the unknown-field error carrying exactly s and the    *)
(* complete list of canonical strings in declared order.                    *)
C5_DecodingFailure ==
    (op = "visit_str" /\ arg \notin Range(pairs)) =>
        /\ ~ret.ok
        /\ ret.error.kind = "unknown_field"
        /\ ret.error.field = arg
        /\ ret.error.expected = pairs

C5_Witness ==
    /\ op = "visit_str"
    /\ pairs = <<"red", "green", "blue">>
    /\ arg = "purple"
    /\ ~ret.ok
    /\ ret.error.expected = <<"red", "green", "blue">>

(* The value paired with the key s in a list of entries. *)
ValueOf(es, s) == es[CHOOSE i \in 1..Len(es) : es[i].key = s].val

EntryKeys(es) == {es[i].key : i \in 1..Len(es)}

(* C6 as stated: decoding entries whose keys are distinct canonical        *)
(* strings yields a map in which every variant whose canonical string      *)
(* appeared as a key maps to the value paired with that string, whatever   *)
(* the order of the entries, and distinct keys never collapse.              *)
C6_MappingKeyOriginal ==
    (op = "deserialize_hashmap" /\ EntryKeys(arg) \subseteq Range(pairs)) =>
        /\ ret.ok
        /\ \A v \in Variants(pairs) :
              pairs[v] \in EntryKeys(arg) =>
                  /\ v \in DOMAIN ret.value
                  /\ ret.value[v] = ValueOf(arg, pairs[v])
        /\ Cardinality(DOMAIN ret.value) = Len(arg)

(* C6 amended: the same, for every variant that is the first listed one    *)
(* carrying its canonical string.                                           *)
C6_MappingKey ==
    (op = "deserialize_hashmap" /\ EntryKeys(arg) \subseteq Range(pairs)) =>
        /\ ret.ok
        /\ \A v \in Variants(pairs) :
              (pairs[v] \in EntryKeys(arg) /\ v = FirstCarrier(pairs, pairs[v])) =>
                  /\ v \in DOMAIN ret.value
                  /\ ret.value[v] = ValueOf(arg, pairs[v])
        /\ Cardinality(DOMAIN ret.value) = Len(arg)

C6_Witness ==
    /\ op = "deserialize_hashmap"
    /\ pairs = <<"red", "green", "blue">>
    /\ Len(arg) = 3
    /\ arg[1].key = "blue"
    /\ arg[2].key = "red"
    /\ arg[3].key = "green"
    /\ arg[1].val # arg[2].val
    /\ ret.ok
    /\ ret.value[3] = arg[1].val
    /\ ret.value[1] = arg[2].val
    /\ ret.value[2] = arg[3].val

(* The description `one of "s1", "s2", ..., "sn"`. *)
RECURSIVE JoinQuoted(_, _)
JoinQuoted(names, i) ==
    IF i > Len(names) THEN ""
    ELSE (IF i > 1 THEN ", " ELSE "") \o "\"" \o names[i] \o "\""
         \o JoinQuoted(names, i + 1)

(* C7: expecting writes `one of ` and then every canonical string in       *)
(* double quotes in declared order, with `, ` between consecutive names    *)
(* and no leading or trailing separator.                                    *)
C7_Expecting ==
    op = "expecting" => ret = "one of " \o JoinQuoted(pairs, 1)

(* C8: duplicate strings.  from_str on a declared string returns the first *)
(* listed variant carrying it, so from_str(as_str(v)) is the first carrier *)
(* and differs from Some(v) for every later variant v sharing the string.  *)
C8_FirstPairWins ==
    /\ (op = "from_str" /\ arg \in Range(pairs)) =>
           ret = Some(FirstCarrier(pairs, arg))
    /\ (op = "round_trip" /\ \E j \in 1..(arg - 1) : pairs[j] = pairs[arg]) =>
           /\ ret # Some(arg)
           /\ ret = Some(FirstCarrier(pairs, pairs[arg]))

C8_Witness ==
    /\ op = "round_trip"
    /\ Len(pairs) >= 3
    /\ pairs[1] # pairs[2]
    /\ pairs[2] = pairs[3]
    /\ arg = 3
    /\ ret = Some(2)

(* C9: registry consistency.  NAMES has one entry per declared pair,       *)
(* NAMES[i] is as_str of the i-th variant, from_str(s) is Some exactly     *)
(* when s occurs in NAMES, and the alternatives a decoding failure reports *)
(* are exactly the strings decoding accepts.                                *)
C9_RegistryConsistency ==
    /\ Len(NAMES(pairs)) = Len(pairs)
    /\ \A i \in Variants(pairs) : NAMES(pairs)[i] = as_str(pairs, i)
    /\ \A s \in Inputs : from_str(pairs, s).some <=> s \in Range(NAMES(pairs))
    /\ (op = "visit_str" /\ ~ret.ok) =>
           Range(ret.error.expected) = {s \in Inputs : visit_str(pairs, s).ok}

C9_Witness ==
    /\ op = "visit_str"
    /\ ~ret.ok
    /\ Len(pairs) >= 2
    /\ pairs[1] # pairs[2]
    /\ Range(ret.error.expected) = {pairs[i] : i \in 1..Len(pairs)}

(* C10: revision equivalence.  For pairwise distinct canonical strings the *)
(* generated match arms return what revision 1's linear scans over the     *)
(* pair table return, for every input string and every variant.            *)
C10_RevisionEquivalence ==
    Distinct(pairs) =>
        /\ op = "from_str" => ret = Rev1FromStr(pairs, arg)
        /\ op = "as_str" => ret = Rev1AsStr(pairs, arg)
        /\ \A s \in Inputs : from_str(pairs, s) = Rev1FromStr(pairs, s)
        /\ \A v \in Variants(pairs) : as_str(pairs, v) = Rev1AsStr(pairs, v)

C10_Witness ==
    /\ op = "from_str"
    /\ Distinct(pairs)
    /\ Len(pairs) >= 2
    /\ arg = pairs[2]
    /\ ret = Some(2)
    /\ Rev1FromStr(pairs, arg) = Some(2)

====
